---- MODULE Spec2Model ----
(***************************************************************************)
(* Naive Bayes classifiers of compute-io/naive-bayes: the entry points     *)
(* multinomNB / gaussianNB (lib/index.js), the fitted objects              *)
(* MultinomialFit (lib/multinomial.js) and GaussianFit (lib/gaussian.js)   *)
(* and the shared score method (lib/score.js).                             *)
(*                                                                         *)
(* JavaScript numbers are modelled as fixed-point values with Scale units  *)
(* per 1, together with the three IEEE-754 specials NaN, +Infinity and     *)
(* -Infinity, whose propagation through +, -, *, /, Math.log, Math.sqrt    *)
(* and > follows IEEE-754.  Signed zero is not distinguished.              *)
(***************************************************************************)
EXTENDS Integers, Sequences, FiniteSets, TLC

\* ------------------------------------------------------------------------
\* JavaScript numbers
\* ------------------------------------------------------------------------

\* Fixed-point units per 1.0
Scale == 1000

Num(v) == [k |-> "num", v |-> v]
NaN == [k |-> "nan", v |-> 0]
PInf == [k |-> "inf", v |-> 1]
NInf == [k |-> "inf", v |-> -1]

\* The number literal i (an integer) as a JavaScript number
Lit(i) == Num(i * Scale)

IsNum(a) == a.k = "num"
IsNaN(a) == a.k = "nan"
IsInf(a) == a.k = "inf"

\* Sign of a non-NaN number: -1, 0, 1
Sgn(a) == IF IsInf(a) THEN a.v ELSE IF a.v > 0 THEN 1 ELSE IF a.v < 0 THEN -1 ELSE 0

\* Integer quotient rounded to nearest (b > 0)
RDiv(a, b) == IF a >= 0 THEN (2 * a + b) \div (2 * b) ELSE -((2 * (-a) + b) \div (2 * b))

\* a + b
FAdd(a, b) ==
    IF IsNaN(a) \/ IsNaN(b) THEN NaN
    ELSE IF IsInf(a) /\ IsInf(b) THEN (IF a.v = b.v THEN a ELSE NaN)
    ELSE IF IsInf(a) THEN a
    ELSE IF IsInf(b) THEN b
    ELSE Num(a.v + b.v)

\* -a
FNeg(a) == IF IsNaN(a) THEN NaN ELSE IF IsInf(a) THEN [k |-> "inf", v |-> -a.v] ELSE Num(-a.v)

\* a - b
FSub(a, b) == FAdd(a, FNeg(b))

\* a * b
FMul(a, b) ==
    IF IsNaN(a) \/ IsNaN(b) THEN NaN
    ELSE IF IsInf(a) \/ IsInf(b)
         THEN (IF Sgn(a) * Sgn(b) = 0 THEN NaN
               ELSE [k |-> "inf", v |-> Sgn(a) * Sgn(b)])
    ELSE Num(RDiv(a.v * b.v, Scale))

\* a / b
FDiv(a, b) ==
    IF IsNaN(a) \/ IsNaN(b) THEN NaN
    ELSE IF IsInf(a) THEN (IF IsInf(b) THEN NaN
                           ELSE [k |-> "inf", v |-> IF Sgn(b) < 0 THEN -a.v ELSE a.v])
    ELSE IF IsInf(b) THEN Num(0)
    ELSE IF b.v = 0 THEN (IF a.v = 0 THEN NaN ELSE [k |-> "inf", v |-> Sgn(a)])
    ELSE Num(IF b.v > 0 THEN RDiv(a.v * Scale, b.v) ELSE RDiv(-(a.v * Scale), -b.v))

\* a > b
FGt(a, b) ==
    IF IsNaN(a) \/ IsNaN(b) THEN FALSE
    ELSE IF IsInf(a) THEN (a.v = 1 /\ b # PInf)
    ELSE IF IsInf(b) THEN b.v = -1
    ELSE a.v > b.v

\* a >= b (equal, or greater as > has it)
FGe(a, b) == (~IsNaN(a) /\ ~IsNaN(b)) /\ (a = b \/ FGt(a, b))

\* ToBoolean(a): 0 and NaN are falsy
Truthy(a) == ~IsNaN(a) /\ (IsInf(a) \/ a.v # 0)

\* ln 2 in fixed point
LN2 == 693

\* ln(m) for a fixed-point m in [Scale, 2*Scale): 2*(s + s^3/3 + s^5/5 + s^7/7),
\* s = (m-1)/(m+1)
LnMant(m) ==
    LET s == RDiv((m - Scale) * Scale, m + Scale)
        s2 == RDiv(s * s, Scale)
        s3 == RDiv(s * s2, Scale)
        s5 == RDiv(s3 * s2, Scale)
        s7 == RDiv(s5 * s2, Scale)
    IN 2 * s + RDiv(2 * s3, 3) + RDiv(2 * s5, 5) + RDiv(2 * s7, 7)

RECURSIVE LnPos(_)
\* ln(u) for a fixed-point u > 0
LnPos(u) ==
    IF u >= 2 * Scale THEN LN2 + LnPos(RDiv(u, 2))
    ELSE IF u < Scale THEN LnPos(2 * u) - LN2
    ELSE LnMant(u)

\* Math.log
ln(a) ==
    IF IsNaN(a) THEN NaN
    ELSE IF IsInf(a) THEN (IF a.v = 1 THEN PInf ELSE NaN)
    ELSE IF a.v < 0 THEN NaN
    ELSE IF a.v = 0 THEN NInf
    ELSE Num(LnPos(a.v))

\* exp(-t/Scale) in fixed point for 0 <= t < LN2: 1 - t + t^2/2 - t^3/6 + t^4/24
ExpFrac(t) ==
    LET t2 == RDiv(t * t, Scale)
        t3 == RDiv(t2 * t, Scale)
        t4 == RDiv(t3 * t, Scale)
    IN Scale - t + RDiv(t2, 2) - RDiv(t3, 6) + RDiv(t4, 24)

RECURSIVE Halve(_, _)
Halve(v, k) == IF k = 0 \/ v = 0 THEN v ELSE Halve(RDiv(v, 2), k - 1)

RECURSIVE Double(_, _)
Double(v, k) == IF k = 0 THEN v ELSE Double(2 * v, k - 1)

\* Largest exponent for which exp stays representable
ExpMax == 13 * Scale

\* Math.exp
ExpNum(a) ==
    IF IsNaN(a) THEN NaN
    ELSE IF IsInf(a) THEN (IF a.v = 1 THEN PInf ELSE Num(0))
    ELSE IF a.v > ExpMax THEN PInf
    ELSE IF a.v <= 0
         THEN Num(Halve(ExpFrac((-a.v) % LN2), (-a.v) \div LN2))
    ELSE LET q == (a.v + LN2 - 1) \div LN2
         IN Num(Double(ExpFrac(q * LN2 - a.v), q))

RECURSIVE ISqrt(_, _, _)
\* Largest r in lo..hi with r*r <= s
ISqrt(s, lo, hi) ==
    IF lo >= hi THEN lo
    ELSE LET mid == (lo + hi + 1) \div 2
         IN IF mid * mid <= s THEN ISqrt(s, mid, hi) ELSE ISqrt(s, lo, mid - 1)

SqrtMax == 40 * Scale

\* Math.sqrt
FSqrt(a) ==
    IF IsNaN(a) THEN NaN
    ELSE IF IsInf(a) THEN (IF a.v = 1 THEN PInf ELSE NaN)
    ELSE IF a.v < 0 THEN NaN
    ELSE Num(ISqrt(a.v * Scale, 0, SqrtMax))

\* ------------------------------------------------------------------------
\* JavaScript values other than numbers
\* ------------------------------------------------------------------------

Undefined == [t |-> "undefined"]
Null == [t |-> "null"]
Number(a) == [t |-> "number", n |-> a]
\* A string is modelled by what ToNumber makes of it
String(a) == [t |-> "string", n |-> a]

\* ToNumber
ToNumber(v) ==
    CASE v.t = "number" -> v.n
      [] v.t = "string" -> v.n
      [] v.t = "null" -> Num(0)
      [] OTHER -> NaN

\* ToBoolean (every string the model draws is non-empty)
ToBoolean(v) ==
    CASE v.t = "number" -> Truthy(v.n)
      [] v.t = "string" -> TRUE
      [] v.t = "object" -> TRUE
      [] OTHER -> FALSE

\* a || b
Or(a, b) == IF ToBoolean(a) THEN a ELSE b

\* a + v for a number a: addition of numbers, concatenation with a string or an
\* object (whose text is never numeric for the strings the model draws)
Plus(a, v) ==
    IF v.t \in {"string", "object"} THEN String(NaN)
    ELSE Number(FAdd(a, ToNumber(v)))

\* a * v for a number a
Times(a, v) == FMul(a, ToNumber(v))

\* validate.io-number-primitive
isNumber(v) == v.t = "number" /\ ~IsNaN(v.n)

\* An object literal with the given own properties
Obj(props) == [t |-> "object", props |-> props]

\* opts.hasOwnProperty( 'alpha' )
hasOwnProperty(o, name) == name \in DOMAIN o.props

\* o.alpha for an object o
Get(o, name) == IF name \in DOMAIN o.props THEN o.props[name] ELSE Undefined

\* ------------------------------------------------------------------------
\* Arrays, matrices and the collaborating packages
\* ------------------------------------------------------------------------

\* An array of numbers or labels, an array of arrays, a Matrix, or a value
\* that is none of them
Vec(d) == [kind |-> "vec", data |-> d]
Aoa(d) == [kind |-> "aoa", data |-> d]
Mat(d) == [kind |-> "mat", data |-> d]
NotArray == [kind |-> "other", data |-> <<>>]

\* validate.io-array-array
isArrayArray(x) == x.kind = "aoa"

\* validate.io-matrix-like
isMatrixLike(x) == x.kind = "mat"

\* validate.io-array-like: anything with a length
isArrayLike(x) == x.kind \in {"vec", "aoa", "mat"}

\* compute-to-matrix: the rows of the array of arrays become the rows of a Matrix
toMatrix(x) == Mat([i \in 1..Len(x.data) |-> [j \in 1..Len(x.data[1]) |-> x.data[i][j]]])

\* x.shape
shape(x) == <<Len(x.data), IF Len(x.data) = 0 THEN 0 ELSE Len(x.data[1])>>

\* x.get( i, j ), 1-based here
get(x, i, j) == x.data[i][j]

\* x.mget( ids, [j] ): column j of the rows ids, in the order of ids
mgetCol(x, ids, j) == [k \in 1..Len(ids) |-> x.data[ids[k]][j]]

\* x.mget( [i], null ).data: row i
mgetRow(x, i) == x.data[i]

RECURSIVE sumFrom(_, _)
sumFrom(s, k) == IF k = 0 THEN Num(0) ELSE FAdd(sumFrom(s, k - 1), s[k])

\* compute-sum
sum(s) == sumFrom(s, Len(s))

\* compute-mean
mean(s) == FDiv(sum(s), Lit(Len(s)))

\* compute-stdev: the sample standard deviation; `small` is what the package
\* gives for fewer than two values
stdev(s, small) ==
    IF Len(s) < 2 THEN small
    ELSE LET m == mean(s)
             d == [k \in 1..Len(s) |-> FMul(FSub(s[k], m), FSub(s[k], m))]
         IN FSqrt(FDiv(sum(d), Lit(Len(s) - 1)))

\* compute-max: NaN if any element is NaN
RECURSIVE maxFrom(_, _)
maxFrom(s, k) ==
    IF k = 1 THEN s[1]
    ELSE LET m == maxFrom(s, k - 1)
         IN IF IsNaN(m) \/ IsNaN(s[k]) THEN NaN ELSE IF FGt(s[k], m) THEN s[k] ELSE m

max(s) == maxFrom(s, Len(s))

\* compute-subtract: elementwise s - a
subtract(s, a) == [k \in 1..Len(s) |-> FSub(s[k], a)]

\* compute-exp: elementwise exp
exp(s) == [k \in 1..Len(s) |-> ExpNum(s[k])]

\* Storing a number in an Int32Array: ToInt32 truncates toward zero, maps NaN
\* and the infinities to 0 and reduces modulo 2^32.  Every magnitude of this
\* model stays below 2^31, where the reduction changes nothing.
ToInt32(a) ==
    IF ~IsNum(a) THEN Num(0)
    ELSE Num((IF a.v >= 0 THEN a.v \div Scale ELSE -((-a.v) \div Scale)) * Scale)

\* The elements of a sequence
Range(s) == {s[k] : k \in 1..Len(s)}

\* Sequences without repetition listing exactly the set S
Orderings(S) == {s \in [1..Cardinality(S) -> S] : Range(s) = S}

\* y[ j ] === c for the 1-based position j: past the end y[ j ] is undefined
LabelIs(y, j, c) == j <= Len(y.data) /\ y.data[j] = c

RECURSIVE idsFromSecondRow(_, _, _)
\* idsFrom with the loop starting at the second row
idsFromSecondRow(y, c, k) ==
    IF k <= 1 THEN <<>>
    ELSE IF LabelIs(y, k, c) THEN Append(idsFromSecondRow(y, c, k - 1), k)
    ELSE idsFromSecondRow(y, c, k - 1)

RECURSIVE idsFrom(_, _, _)
\* ids after the loop of lines 72-76 has run over the first k rows
idsFrom(y, c, k) ==
    IF k = 0 THEN <<>>
    ELSE IF LabelIs(y, k, c) THEN Append(idsFrom(y, c, k - 1), k)
    ELSE idsFrom(y, c, k - 1)

\* ------------------------------------------------------------------------
\* lib/multinomial.js: fitting
\* ------------------------------------------------------------------------

\* counts after the loop of lines 79-81: the column sums of the rows ids,
\* each stored in the Int32Array counts
countsOf(x, ids, p) == [j \in 1..p |-> ToInt32(sum(mgetCol(x, ids, j)))]

\* val of line 84 for feature j, given the Int32Array counts
cprobVal(counts, j, p, alpha) ==
    FSub(ln(ToNumber(Plus(counts[j], alpha))),
         ln(FAdd(sum(counts), Times(Lit(p), alpha))))

\* fitMultinomial( x, y ) on an instance with the fields n, p, classes, nclass
\* and alpha set.  emptyThrows: whether x.mget throws for an empty list of
\* row indices.  Gives the instance with prior and cprob assigned, or a throw.
fitMultinomial(this, x, y, emptyThrows) ==
    LET ids == [i \in 1..this.nclass |-> idsFrom(y, this.classes[i], this.n)]
        counts == [i \in 1..this.nclass |-> countsOf(x, ids[i], this.p)]
        prior == [c \in Range(this.classes) |->
                    LET i == CHOOSE k \in 1..this.nclass : this.classes[k] = c
                    IN ln(FDiv(Lit(Len(ids[i])), Lit(this.n)))]
        cprob == [j \in 1..this.p |-> [i \in 1..this.nclass |->
                    cprobVal(counts[i], j, this.p, this.alpha)]]
    IN IF emptyThrows /\ \E i \in 1..this.nclass : ids[i] = <<>>
       THEN [threw |-> TRUE]
       ELSE [threw |-> FALSE,
             fit |-> [family |-> "multinomial", n |-> this.n, p |-> this.p,
                      classes |-> this.classes, nclass |-> this.nclass,
                      alpha |-> this.alpha, prior |-> prior, cprob |-> cprob]]

\* new MultinomialFit( x, y, alpha ); classes is what unique( y ) returned
MultinomialFit(x, y, alpha, classes, emptyThrows) ==
    fitMultinomial([n |-> shape(x)[1], p |-> shape(x)[2], classes |-> classes,
                    nclass |-> Len(classes), alpha |-> alpha],
                   x, y, emptyThrows)

\* ------------------------------------------------------------------------
\* lib/gaussian.js: fitting
\* ------------------------------------------------------------------------

\* fitGaussian( x, y ) on an instance with n, p, classes and nclass set
fitGaussian(this, x, y, emptyThrows, small) ==
    LET ids == [i \in 1..this.nclass |-> idsFrom(y, this.classes[i], this.n)]
        prior == [c \in Range(this.classes) |->
                    LET i == CHOOSE k \in 1..this.nclass : this.classes[k] = c
                    IN ln(FDiv(Lit(Len(ids[i])), Lit(this.n)))]
        mu == [j \in 1..this.p |-> [i \in 1..this.nclass |->
                    mean(mgetCol(x, ids[i], j))]]
        sigma == [j \in 1..this.p |-> [i \in 1..this.nclass |->
                    stdev(mgetCol(x, ids[i], j), small)]]
    IN IF emptyThrows /\ \E i \in 1..this.nclass : ids[i] = <<>>
       THEN [threw |-> TRUE]
       ELSE [threw |-> FALSE,
             fit |-> [family |-> "gaussian", n |-> this.n, p |-> this.p,
                      classes |-> this.classes, nclass |-> this.nclass,
                      prior |-> prior, mu |-> mu, sigma |-> sigma]]

\* new GaussianFit( x, y )
GaussianFit(x, y, classes, emptyThrows, small) ==
    fitGaussian([n |-> shape(x)[1], p |-> shape(x)[2], classes |-> classes,
                 nclass |-> Len(classes)],
                x, y, emptyThrows, small)

\* ------------------------------------------------------------------------
\* lib/multinomial.js: prediction
\* ------------------------------------------------------------------------

\* x[ j ] of an array (1-based here); a missing element is undefined, which is
\* falsy and NaN in arithmetic, as NaN is
At(x, j) == IF j <= Len(x.data) THEN x.data[j] ELSE NaN

RECURSIVE mOneLogLik(_, _, _, _)
\* predictOne, lines 132-136: logLik[ i ] after the first j features
mOneLogLik(this, x, i, j) ==
    IF j = 0 THEN this.prior[this.classes[i]]
    ELSE FAdd(mOneLogLik(this, x, i, j - 1),
              IF Truthy(At(x, j)) THEN FMul(At(x, j), this.cprob[j][i]) ELSE Num(0))

RECURSIVE mOneScanLastWins(_, _, _)
\* mOneScan comparing with >= : the last maximum wins
mOneScanLastWins(this, logLik, k) ==
    IF k = 0 THEN <<logLik[1], this.classes[1]>>
    ELSE LET prev == mOneScanLastWins(this, logLik, k - 1)
         IN IF FGe(logLik[k], prev[1]) THEN <<logLik[k], this.classes[k]>> ELSE prev

RECURSIVE mOneScan(_, _, _)
\* predictOne, lines 138-146: <<max, argmax>> after the first k classes
mOneScan(this, logLik, k) ==
    IF k = 0 THEN <<logLik[1], this.classes[1]>>
    ELSE LET prev == mOneScan(this, logLik, k - 1)
         IN IF FGt(logLik[k], prev[1]) THEN <<logLik[k], this.classes[k]>> ELSE prev

\* MultinomialFit.prototype.predictOne: the log-likelihoods and the label
mPredictOne(this, x) ==
    LET logLik == [i \in 1..Len(this.classes) |-> mOneLogLik(this, x, i, this.p)]
    IN [logLik |-> logLik, val |-> mOneScan(this, logLik, Len(this.classes))[2]]

RECURSIVE mRowLogLik(_, _, _, _, _)
\* predict, lines 179-183: logLik[ j ] of row i after the first k features
mRowLogLik(this, x, i, j, k) ==
    IF k = 0 THEN this.prior[this.classes[j]]
    ELSE FAdd(mRowLogLik(this, x, i, j, k - 1),
              IF Truthy(get(x, i, k)) THEN FMul(get(x, i, k), this.cprob[k][j])
              ELSE Num(0))

RECURSIVE mRowScanLastWins(_, _, _)
\* mRowScan comparing with >= : the last maximum wins
mRowScanLastWins(this, logLik, k) ==
    IF k = 0 THEN <<logLik[1], this.classes[1]>>
    ELSE LET prev == mRowScanLastWins(this, logLik, k - 1)
         IN IF FGe(logLik[k], prev[1]) THEN <<logLik[k], this.classes[k]>> ELSE prev

RECURSIVE mRowScan(_, _, _)
\* predict, lines 185-193: <<max, argmax>> after the first k classes
mRowScan(this, logLik, k) ==
    IF k = 0 THEN <<logLik[1], this.classes[1]>>
    ELSE LET prev == mRowScan(this, logLik, k - 1)
         IN IF FGt(logLik[k], prev[1]) THEN <<logLik[k], this.classes[k]>> ELSE prev

\* predict, lines 176-194: the log-likelihoods of row i and ret[ i ]
mPredictRow(this, x, i) ==
    LET nClasses == Len(this.classes)
        logLik == [j \in 1..nClasses |-> mRowLogLik(this, x, i, j, this.p)]
    IN [logLik |-> logLik, val |-> mRowScan(this, logLik, nClasses)[2]]

\* MultinomialFit.prototype.predict
mPredict(this, x0) ==
    LET x == IF isArrayArray(x0) THEN toMatrix(x0) ELSE x0
    IN IF isMatrixLike(x)
       THEN [logLik |-> [i \in 1..shape(x)[1] |-> mPredictRow(this, x, i).logLik],
             val |-> [i \in 1..shape(x)[1] |-> mPredictRow(this, x, i).val]]
       ELSE mPredictOne(this, x)

\* lines 235-238 and 252-255: log-sum-exp normalisation
normalise(logLik) ==
    LET a == max(logLik)
        denom == FAdd(a, ln(sum(exp(subtract(logLik, a)))))
    IN exp(subtract(logLik, denom))

RECURSIVE mProbsRowLogLik(_, _, _, _, _)
\* predictProbs, lines 229-233: logLik[ j ] of row i after the first k features
mProbsRowLogLik(this, x, i, j, k) ==
    IF k = 0 THEN this.prior[this.classes[j]]
    ELSE FAdd(mProbsRowLogLik(this, x, i, j, k - 1),
              IF Truthy(get(x, i, k)) THEN FMul(get(x, i, k), this.cprob[k][j])
              ELSE Num(0))

RECURSIVE mProbsOneLogLik(_, _, _, _)
\* predictProbs, lines 246-250: logLik[ j ] after the first k features
mProbsOneLogLik(this, x, j, k) ==
    IF k = 0 THEN this.prior[this.classes[j]]
    ELSE FAdd(mProbsOneLogLik(this, x, j, k - 1), FMul(At(x, k), this.cprob[k][j]))

\* MultinomialFit.prototype.predictProbs
mPredictProbs(this, x0) ==
    LET x == IF isArrayArray(x0) THEN toMatrix(x0) ELSE x0
    IN IF isMatrixLike(x)
       THEN LET logLik == [i \in 1..shape(x)[1] |-> [j \in 1..this.nclass |->
                              mProbsRowLogLik(this, x, i, j, this.p)]]
            IN [logLik |-> logLik,
                val |-> [i \in 1..shape(x)[1] |-> normalise(logLik[i])]]
       ELSE LET logLik == [j \in 1..this.nclass |->
                              mProbsOneLogLik(this, x, j, this.p)]
            IN [logLik |-> logLik, val |-> normalise(logLik)]

\* ------------------------------------------------------------------------
\* lib/gaussian.js: prediction
\* ------------------------------------------------------------------------

\* Math.PI
PI == Num(3142)

RECURSIVE gaussFrom(_, _, _, _)
\* calcGaussianProb, lines 104-109: res after the first j features
gaussFrom(this, x, i, j) ==
    IF j = 0 THEN this.prior[this.classes[i]]
    ELSE FAdd(gaussFrom(this, x, i, j - 1),
              FSub(FMul(FMul(Num(-(Scale \div 2)), ln(FMul(Lit(2), PI))), this.sigma[j][i]),
                   FDiv(FMul(Num(Scale \div 2), FSub(At(x, j), this.mu[j][i])),
                        this.sigma[j][i])))

\* GaussianFit.prototype.calcGaussianProb
calcGaussianProb(this, x, i) == gaussFrom(this, x, i, this.p)

RECURSIVE gOneScan(_, _, _)
\* predictOne, lines 132-140: <<max, argmax>> after the first k classes
gOneScan(this, logLik, k) ==
    IF k = 0 THEN <<logLik[1], this.classes[1]>>
    ELSE LET prev == gOneScan(this, logLik, k - 1)
         IN IF FGt(logLik[k], prev[1]) THEN <<logLik[k], this.classes[k]>> ELSE prev

\* GaussianFit.prototype.predictOne
gPredictOne(this, x) ==
    LET logLik == [i \in 1..Len(this.classes) |-> calcGaussianProb(this, x, i)]
    IN [logLik |-> logLik, val |-> gOneScan(this, logLik, Len(this.classes))[2]]

RECURSIVE gRowScan(_, _, _)
\* predict, lines 174-182: <<max, argmax>> after the first k classes
gRowScan(this, logLik, k) ==
    IF k = 0 THEN <<logLik[1], this.classes[1]>>
    ELSE LET prev == gRowScan(this, logLik, k - 1)
         IN IF FGt(logLik[k], prev[1]) THEN <<logLik[k], this.classes[k]>> ELSE prev

\* predict, lines 170-183: the log-likelihoods of row i and ret[ i ]
gPredictRow(this, x, i) ==
    LET nClasses == Len(this.classes)
        logLik == [j \in 1..nClasses |-> calcGaussianProb(this, Vec(mgetRow(x, i)), j)]
    IN [logLik |-> logLik, val |-> gRowScan(this, logLik, nClasses)[2]]

\* GaussianFit.prototype.predict
gPredict(this, x0) ==
    LET x == IF isArrayArray(x0) THEN toMatrix(x0) ELSE x0
    IN IF isMatrixLike(x)
       THEN [logLik |-> [i \in 1..shape(x)[1] |-> gPredictRow(this, x, i).logLik],
             val |-> [i \in 1..shape(x)[1] |-> gPredictRow(this, x, i).val]]
       ELSE gPredictOne(this, x)

\* GaussianFit.prototype.predictProbs
gPredictProbs(this, x0) ==
    LET x == IF isArrayArray(x0) THEN toMatrix(x0) ELSE x0
    IN IF isMatrixLike(x)
       THEN LET logLik == [i \in 1..shape(x)[1] |-> [j \in 1..this.nclass |->
                              calcGaussianProb(this, Vec(mgetRow(x, i)), j)]]
            IN [logLik |-> logLik,
                val |-> [i \in 1..shape(x)[1] |-> normalise(logLik[i])]]
       ELSE LET logLik == [j \in 1..this.nclass |-> calcGaussianProb(this, x, j)]
            IN [logLik |-> logLik, val |-> normalise(logLik)]

\* ------------------------------------------------------------------------
\* Dispatch on the instance, and lib/score.js
\* ------------------------------------------------------------------------

\* this.predictOne( x )
predictOneOf(this, x) ==
    IF this.family = "multinomial" THEN mPredictOne(this, x) ELSE gPredictOne(this, x)

\* this.predict( x )
predictOf(this, x) ==
    IF this.family = "multinomial" THEN mPredict(this, x) ELSE gPredict(this, x)

\* this.predictProbs( x )
predictProbsOf(this, x) ==
    IF this.family = "multinomial" THEN mPredictProbs(this, x) ELSE gPredictProbs(this, x)

\* yhat[ i ] === y[ i ] for the 1-based position i <= y.length: yhat is the array
\* predict returned for a matrix, or the single label it returned for one
\* observation (indexing a number gives undefined, which equals no label)
hit(yhatIsArray, yhat, y, i) == yhatIsArray /\ i <= Len(yhat) /\ yhat[i] = y.data[i]

RECURSIVE accuracyFrom(_, _, _, _)
\* score, lines 294-298: accuracy after the first i labels
accuracyFrom(yhatIsArray, yhat, y, i) ==
    IF i = 0 THEN 0
    ELSE accuracyFrom(yhatIsArray, yhat, y, i - 1)
         + (IF hit(yhatIsArray, yhat, y, i) THEN 1 ELSE 0)

\* score( x, y )
score(this, x, y) ==
    IF ~isArrayLike(x) THEN [type |-> "TypeError"]
    ELSE IF ~isArrayLike(y) THEN [type |-> "TypeError"]
    ELSE LET yhat == predictOf(this, x).val
             n == Len(y.data)
             yhatIsArray == isArrayArray(x) \/ isMatrixLike(x)
         IN [type |-> "return",
             val |-> FDiv(Lit(accuracyFrom(yhatIsArray, yhat, y, n)), Lit(n))]

\* ------------------------------------------------------------------------
\* State and inputs
\* ------------------------------------------------------------------------

\* fit: the fitted instance the caller holds, NoFit before a fit call returned
\* call: the last call made, with its arguments
\* ret: how the last call ended: a return (with its value) or a throw
\* logLik: the log-likelihoods the last prediction call computed, per class
\*         (per row and class for a matrix)
VARIABLES fit, call, ret, logLik

vars == <<fit, call, ret, logLik>>

NoFit == [family |-> "none"]

\* Most rows of a training design matrix
MaxRows == 2

\* Most rows of a matrix of new observations
MaxPredRows == 2

\* The features: two words, say
Features == {1, 2}

\* Number of features
NFeat == Cardinality(Features)

\* Class labels
Labels == {0, 1}

\* Entries of a training design matrix: absent or present
TrainVals == {Num(0), Lit(1)}

\* The same with a fractional weight
TrainValsWide == TrainVals \cup {Num(Scale \div 2)}

Rows(vals) == [1..NFeat -> vals]

\* Design matrices over the entries vals, as an array of arrays or as a Matrix
TrainX(vals) ==
    UNION {{Aoa(d), Mat(d)} : d \in UNION {[1..n -> Rows(vals)] : n \in 1..MaxRows}}

\* Label vectors, as long as a design matrix has rows or one longer
TrainY == {Vec(d) : d \in UNION {[1..n -> Labels] : n \in 1..(MaxRows + 1)}}

\* The options argument: omitted, {}, or { alpha: ... }
Opts ==
    {Undefined, Obj(<<>>)}
    \cup {Obj([alpha |-> a]) : a \in {Number(Lit(2)), Number(Lit(-1)), String(NaN), Null}}

\* New observations: no feature, the first feature, both features
PredRows == {<<Num(0), Num(0)>>, <<Lit(1), Num(0)>>, <<Lit(1), Lit(1)>>}

\* One observation, or a matrix of them
PredOne == {Vec(d) : d \in PredRows}
PredX ==
    PredOne
    \cup UNION {{Aoa(d), Mat(d)} : d \in UNION {[1..n -> PredRows] : n \in 1..MaxPredRows}}

\* What score is given as x: one observation, an array of observations with
\* the first feature, or something that is no array
ScoreRows == {r \in PredRows : r[1] # Num(0)}
ScoreX ==
    {Vec(d) : d \in ScoreRows}
    \cup {Aoa(d) : d \in UNION {[1..n -> ScoreRows] : n \in 1..MaxPredRows}}
    \cup {NotArray}

\* Labels to score against
ScoreY == {Vec(d) : d \in UNION {[1..n -> Labels] : n \in 1..MaxPredRows}} \cup {NotArray}

Init ==
    /\ fit = NoFit
    /\ call = [fn |-> "none"]
    /\ ret = [type |-> "none"]
    /\ logLik = <<>>

\* ------------------------------------------------------------------------
\* lib/index.js
\* ------------------------------------------------------------------------

\* `arguments > 2` (line 352): the arguments object converts to NaN
argumentsGt2 == FGt(NaN, Lit(2))

\* multinomNB( x, y, opts ), with what the collaborators do: classes is what
\* unique( y ) returns, emptyThrows whether mget throws for no row indices
multinomNB(x0, y, opts, classes, emptyThrows) ==
    /\ call.fn = "none"
    /\ call' = [fn |-> "multinomNB", x |-> x0, y |-> y, opts |-> opts]
    /\ logLik' = <<>>
    /\ IF ~isArrayArray(x0) /\ ~isMatrixLike(x0)
       THEN ret' = [type |-> "TypeError"] /\ fit' = fit
       ELSE IF ~isArrayLike(y)
       THEN ret' = [type |-> "TypeError"] /\ fit' = fit
       ELSE IF argumentsGt2 /\ hasOwnProperty(opts, "alpha")
               /\ ~isNumber(Get(opts, "alpha"))
       THEN ret' = [type |-> "TypeError"] /\ fit' = fit
       ELSE IF opts = Undefined
       THEN \* line 359 reads a property of undefined
            ret' = [type |-> "TypeError"] /\ fit' = fit
       ELSE LET x == IF isArrayArray(x0) THEN toMatrix(x0) ELSE x0
                alpha == Or(Get(opts, "alpha"), Number(Lit(1)))
                made == MultinomialFit(x, y, alpha, classes, emptyThrows)
            IN IF made.threw
               THEN ret' = [type |-> "TypeError"] /\ fit' = fit
               ELSE ret' = [type |-> "return"] /\ fit' = made.fit

\* gaussianNB( x, y ); small is what stdev gives for fewer than two values
gaussianNB(x0, y, classes, emptyThrows, small) ==
    /\ call.fn = "none"
    /\ call' = [fn |-> "gaussianNB", x |-> x0, y |-> y]
    /\ logLik' = <<>>
    /\ IF ~isArrayArray(x0) /\ ~isMatrixLike(x0)
       THEN ret' = [type |-> "TypeError"] /\ fit' = fit
       ELSE IF ~isArrayLike(y)
       THEN ret' = [type |-> "TypeError"] /\ fit' = fit
       ELSE LET x == IF isArrayArray(x0) THEN toMatrix(x0) ELSE x0
                made == GaussianFit(x, y, classes, emptyThrows, small)
            IN IF made.threw
               THEN ret' = [type |-> "TypeError"] /\ fit' = fit
               ELSE ret' = [type |-> "return"] /\ fit' = made.fit

\* What unique( y ) may return: the distinct labels of y, in some order
unique(y) == IF isArrayLike(y) THEN Orderings(Range(y.data)) ELSE {<<>>}

\* ------------------------------------------------------------------------
\* Calls on the fitted instance
\* ------------------------------------------------------------------------

\* predictOne accumulating the first log-likelihood in this.prior
predictOneStoring(x) ==
    /\ call.fn = "idle"
    /\ fit # NoFit
    /\ call' = [fn |-> "predictOne", x |-> x]
    /\ LET r == predictOneOf(fit, x)
       IN /\ ret' = [type |-> "return", val |-> r.val]
          /\ logLik' = r.logLik
          /\ fit' = [fit EXCEPT !.prior[fit.classes[1]] = r.logLik[1]]

predictOne(x) ==
    /\ call.fn = "idle"
    /\ fit # NoFit
    /\ call' = [fn |-> "predictOne", x |-> x]
    /\ LET r == predictOneOf(fit, x)
       IN ret' = [type |-> "return", val |-> r.val] /\ logLik' = r.logLik
    /\ UNCHANGED fit

predict(x) ==
    /\ call.fn = "idle"
    /\ fit # NoFit
    /\ call' = [fn |-> "predict", x |-> x]
    /\ LET r == predictOf(fit, x)
       IN ret' = [type |-> "return", val |-> r.val] /\ logLik' = r.logLik
    /\ UNCHANGED fit

predictProbs(x) ==
    /\ call.fn = "idle"
    /\ fit # NoFit
    /\ call' = [fn |-> "predictProbs", x |-> x]
    /\ LET r == predictProbsOf(fit, x)
       IN ret' = [type |-> "return", val |-> r.val] /\ logLik' = r.logLik
    /\ UNCHANGED fit

scoreCall(x, y) ==
    /\ call.fn = "idle"
    /\ fit # NoFit
    /\ call' = [fn |-> "score", x |-> x, y |-> y]
    /\ ret' = score(fit, x, y)
    /\ logLik' = <<>>
    /\ UNCHANGED fit

\* The caller takes the result of the last call and goes on
Resume ==
    /\ call.fn \notin {"none", "idle"}
    /\ call' = [fn |-> "idle"]
    /\ ret' = [type |-> "none"]
    /\ logLik' = <<>>
    /\ UNCHANGED fit

\* A fit call on a design matrix of X
Fit(X) ==
    /\ call.fn = "none"
    /\ \E x \in X \cup {Vec(<<Lit(1)>>)}, y \in TrainY \cup {NotArray} :
         /\ Len(y.data) <= Len(x.data) + 1
         /\ Len(x.data) <= Len(y.data) + 1
         /\ \E classes \in unique(y), emptyThrows \in BOOLEAN :
              \/ \E small \in {NaN, Num(0)} : gaussianNB(x, y, classes, emptyThrows, small)
              \/ \E opts \in Opts : multinomNB(x, y, opts, classes, emptyThrows)

\* A call on the fitted instance
Use ==
    /\ call.fn = "idle"
    /\ fit # NoFit
    /\ \/ \E x \in PredOne : predictOne(x)
       \/ \E x \in PredX : predict(x)
       \/ \E x \in PredX : predictProbs(x)
       \/ \E x \in ScoreX, y \in ScoreY : scoreCall(x, y)

Next == Fit(TrainX(TrainVals)) \/ Use \/ Resume

Spec == Init /\ [][Next]_vars

\* Fitting alone, on design matrices that also hold fractional entries
NextFit == Fit(TrainX(TrainValsWide)) \/ Resume

SpecFit == Init /\ [][NextFit]_vars

\* ------------------------------------------------------------------------
\* Properties
\* ------------------------------------------------------------------------

\* The last call was a fit call given a design matrix and a label vector
FitCalled(fn) ==
    /\ call.fn = fn
    /\ isArrayArray(call.x) \/ isMatrixLike(call.x)
    /\ isArrayLike(call.y)

\* ... whose label vector is as long as the design matrix has rows
FitCalledMatching(fn) == FitCalled(fn) /\ Len(call.y.data) = Len(call.x.data)

\* C1: multinomNB with valid x and y and no smoothing constant supplied (opts
\* omitted, or an options object without alpha) returns a model with alpha = 1.
C1_DefaultAlpha ==
    (/\ FitCalledMatching("multinomNB")
     /\ call.opts = Undefined \/ ~hasOwnProperty(call.opts, "alpha"))
    => (ret.type = "return" /\ fit # NoFit /\ fit.alpha = Number(Lit(1)))

\* C2: multinomNB with valid x and y and a supplied alpha that is no number
\* throws a TypeError and constructs no model.
C2_RejectsNonNumericAlpha ==
    (/\ FitCalledMatching("multinomNB")
     /\ call.opts # Undefined
     /\ hasOwnProperty(call.opts, "alpha")
     /\ ~isNumber(Get(call.opts, "alpha")))
    => (ret.type = "TypeError" /\ fit = NoFit)

\* C3: a fit call of either family whose label vector is shorter or longer
\* than the design matrix has rows fails and returns no model.
C3_MismatchFails ==
    (/\ FitCalled("multinomNB") \/ FitCalled("gaussianNB")
     /\ Len(call.y.data) # Len(call.x.data))
    => (ret.type # "return" /\ fit = NoFit)

\* The number of predictions predict( x ) produces: one per row of a matrix,
\* one label for a single observation
NumPredictions(x) == IF x.kind \in {"aoa", "mat"} THEN Len(x.data) ELSE 1

\* C4: score( x, y ) fails whenever the number of predictions differs from the
\* length of y; it never returns an accuracy then.
C4_ScoreMismatchFails ==
    (/\ call.fn = "score"
     /\ isArrayLike(call.x) /\ isArrayLike(call.y)
     /\ NumPredictions(call.x) # Len(call.y.data))
    => ret.type # "return"

IsMax(l, i) == \A k \in DOMAIN l : FGe(l[i], l[k])

\* i is the smallest index at which l has its maximum
FirstMax(l, i) == IsMax(l, i) /\ \A k \in 1..(i - 1) : ~IsMax(l, k)

\* val is the label of the smallest index at which l has its maximum
LabelOfFirstMax(l, val) ==
    \E i \in DOMAIN l : FirstMax(l, i) /\ val = fit.classes[i]

HasNaN(l) == \E k \in DOMAIN l : IsNaN(l[k])

\* C6 as claimed: predictOne, and predict for each row of a matrix, return the
\* label of the smallest class index whose log-likelihood is the maximum.
C6_FirstMaxAlways ==
    /\ call.fn = "predictOne" => LabelOfFirstMax(logLik, ret.val)
    /\ (call.fn = "predict" /\ call.x.kind \in {"aoa", "mat"}) =>
           \A r \in DOMAIN logLik : LabelOfFirstMax(logLik[r], ret.val[r])

\* C6 amended: the same whenever no log-likelihood of the observation is NaN.
C6_FirstMaxUnlessNaN ==
    /\ (call.fn = "predictOne" /\ ~HasNaN(logLik)) =>
           LabelOfFirstMax(logLik, ret.val)
    /\ (call.fn = "predict" /\ call.x.kind \in {"aoa", "mat"}) =>
           \A r \in DOMAIN logLik :
               ~HasNaN(logLik[r]) => LabelOfFirstMax(logLik[r], ret.val[r])

\* C6 witness: two classes tie for the maximum and the first is returned
C6_Witness ==
    /\ call.fn = "predictOne"
    /\ fit.nclass = 2
    /\ IsNum(logLik[1])
    /\ logLik[1] = logLik[2]
    /\ ret.val = fit.classes[1]

\* C7: once a fit call has returned, no call changes a field of the model.
C7_ModelImmutable == [][fit # NoFit => fit' = fit]_vars

\* C7 witness: calls have been made on a fitted model, one of them failing
C7_Witness ==
    /\ fit # NoFit
    /\ call.fn = "score"
    /\ ret.type = "TypeError"

\* C8: multinomial predictProbs normalises the very log-likelihoods predict
\* takes its argmax over, for a matrix and for a single observation.
C8_ProbsLogLikAsPredict ==
    (call.fn = "predictProbs" /\ fit.family = "multinomial")
    => logLik = predictOf(fit, call.x).logLik

\* The rows of the design matrix labelled c
RowsOf(c) == {r \in 1..Len(call.x.data) : LabelIs(call.y, r, c)}

RECURSIVE ExactSum(_, _)
\* The sum of feature j over the rows R, with no conversion
ExactSum(R, j) ==
    IF R = {} THEN Num(0)
    ELSE LET r == CHOOSE q \in R : \A o \in R : q >= o
         IN FAdd(ExactSum(R \ {r}, j), call.x.data[r][j])

RECURSIVE ExactTotal(_, _)
\* The sum of the first j features over the rows R
ExactTotal(R, j) == IF j = 0 THEN Num(0) ELSE FAdd(ExactTotal(R, j - 1), ExactSum(R, j))

\* C9: cprob[j][c] is ln(counts[j] + alpha) - ln(totalCount + p*alpha) with
\* counts[j] the exact sum of feature j over the rows labelled c and
\* totalCount the exact sum of those over all features.
C9_ExactCounts ==
    (FitCalledMatching("multinomNB") /\ ret.type = "return") =>
        \A i \in 1..fit.nclass, j \in 1..fit.p :
            fit.cprob[j][i] =
                FSub(ln(ToNumber(Plus(ExactSum(RowsOf(fit.classes[i]), j), fit.alpha))),
                     ln(FAdd(ExactTotal(RowsOf(fit.classes[i]), fit.p),
                             Times(Lit(fit.p), fit.alpha))))

\* The number of training labels equal to c
CountOf(c) == Cardinality({r \in 1..Len(call.y.data) : call.y.data[r] = c})

RECURSIVE SumCounts(_)
SumCounts(C) ==
    IF C = {} THEN 0 ELSE LET c == CHOOSE d \in C : TRUE IN CountOf(c) + SumCounts(C \ {c})

\* C10: after a fit of either family on n rows and n labels, classes lists the
\* labels of y without repetition, every class has at least one row, the class
\* counts sum to n, and prior[c] = ln(count(c) / n).
C10_Priors ==
    ((FitCalledMatching("multinomNB") \/ FitCalledMatching("gaussianNB"))
     /\ ret.type = "return") =>
        /\ fit.n = Len(call.y.data)
        /\ Cardinality(Range(fit.classes)) = Len(fit.classes)
        /\ Range(fit.classes) = Range(call.y.data)
        /\ DOMAIN fit.prior = Range(fit.classes)
        /\ SumCounts(Range(fit.classes)) = fit.n
        /\ \A c \in Range(fit.classes) :
               /\ CountOf(c) >= 1
               /\ fit.prior[c] = ln(FDiv(Lit(CountOf(c)), Lit(fit.n)))

\* C10 witness: a Gaussian fit on two rows of two classes
C10_Witness ==
    /\ FitCalledMatching("gaussianNB")
    /\ ret.type = "return"
    /\ fit.nclass = 2
    /\ fit.n = 2
====
